---- MODULE Spec2Model ----
(***************************************************************************)
(* Article service (service-2-article): the handlers of ArticleServer,    *)
(* the UserClient that classifies the user service's answers, the         *)
(* response mapper and the articles table, as a state machine.            *)
(*                                                                         *)
(* One action is one request handled from start to end.  The user service *)
(* and Redis are the environment: what they answer to each call is drawn  *)
(* by the action from the answers they can give.                          *)
(***************************************************************************)
EXTENDS Integers, Sequences, FiniteSets, TLC

(* ---------------------------------------------------------------- bounds *)

\* Number of rows ever inserted into the articles table (ids 1..MaxArticles).
MaxArticles == 2

\* Largest number of attempts GetUserWithRetry is configured with (the
\* program's own maxRetries is one of 1..MaxConfiguredRetries).
MaxConfiguredRetries == 6

\* Number of UpdateArticle and DeleteArticle requests in progress at once.
MaxWriters == 2

(* ------------------------------------------------------ program constants *)

defaultPageSize == 10
maxPageSize == 100
maxRetries == 3

\* internal/client/user_client.go: the backoff of GetUserWithRetry, in milliseconds.
retryBackoffInitial == 100
retryBackoffMax == 1000

\* internal/response/grpc_response.go: the wire codes.
CodeSuccess == "000"
CodeUnknownError == "002"
CodeInvalidRequest == "003"
CodeNotFound == "005"
CodeAlreadyExists == "006"
CodePermissionDenied == "007"
CodeInternalError == "013"
CodeUnauthenticated == "014"
CodeServiceUnavailable == "015"

\* A nil pointer / nil error.
Nil == [nil |-> TRUE]

(* ------------------------------------------------------------ response *)

MapGRPCCodeToString(code) ==
    CASE code = "OK" -> CodeSuccess
      [] code = "InvalidArgument" -> CodeInvalidRequest
      [] code = "NotFound" -> CodeNotFound
      [] code = "AlreadyExists" -> CodeAlreadyExists
      [] code = "PermissionDenied" -> CodePermissionDenied
      [] code = "Unauthenticated" -> CodeUnauthenticated
      [] code = "Unavailable" -> CodeServiceUnavailable
      [] code = "Internal" -> CodeInternalError
      [] OTHER -> CodeUnknownError

\* status.Error(code, message + hint): the status the error converts back to.
GRPCError(code, message) ==
    LET hint == CASE code = "InvalidArgument" -> " Check input parameters for validity."
                  [] code = "NotFound" -> " Verify the resource ID exists."
                  [] code = "Unauthenticated" -> " Provide valid authentication credentials."
                  [] code = "PermissionDenied" -> " Ensure you have the required permissions."
                  [] code = "Internal" -> " Contact support if the issue persists."
                  [] OTHER -> ""
    IN  [code |-> code, message |-> message \o hint]

\* The envelope {code, message, data} of the *Error helpers (data is nil).
ErrorResponse(code, message) ==
    [code |-> MapGRPCCodeToString(code), message |-> message, data |-> Nil]

\* The envelope of the *Success helpers.
SuccessResponse(data) ==
    [code |-> CodeSuccess, message |-> "success", data |-> data]

(* ---------------------------------------------------------- user service *)

\* The users the user service holds (userpb.User).
UserDirectory ==
    [id \in {1, 2} |->
        [Id |-> id,
         Name |-> IF id = 1 THEN "alice" ELSE "bob",
         Email |-> IF id = 1 THEN "alice@example.com" ELSE "bob@example.com",
         CreatedAt |-> "2025-01-01T00:00:00Z",
         UpdatedAt |-> IF id = 1 THEN "2025-02-01T00:00:00Z" ELSE "2025-03-01T00:00:00Z"]]

\* What one c.client.GetUser call can end in: an answer of a healthy service
\* ("OK"), a success envelope without data or without the user in it, a status
\* error of some code, or an error that is no gRPC status.
UpstreamKinds ==
    {"OK", "NoData", "NoUser", "NonStatus", "NotFound", "DeadlineExceeded",
     "Unavailable", "InvalidArgument", "Internal", "Unknown",
     "ResourceExhausted", "Canceled"}

\* The (resp, err) pair of c.client.GetUser(ctx, {Id: userID}) for one kind.
\* A healthy service finds the users of its directory and reports NotFound
\* for any other id.
UpstreamGetUser(kind, userID) ==
    CASE kind = "OK" /\ userID \in DOMAIN UserDirectory ->
            [status |-> "OK", data |-> "user", user |-> UserDirectory[userID]]
      [] kind = "OK" -> [status |-> "NotFound", data |-> "none", user |-> Nil]
      [] kind = "NoData" -> [status |-> "OK", data |-> "nodata", user |-> Nil]
      [] kind = "NoUser" -> [status |-> "OK", data |-> "nouser", user |-> Nil]
      [] OTHER -> [status |-> kind, data |-> "none", user |-> Nil]

(* ------------------------------------------------------------ UserClient *)

handleGetUserError(raw) ==
    IF raw.status = "NonStatus"
    THEN [user |-> Nil,
          err |-> GRPCError("Internal", "Unknown error from user service. Contact support if the issue persists.")]
    ELSE CASE raw.status = "NotFound" ->
                [user |-> Nil, err |-> GRPCError("NotFound", "User not found. Verify the user ID exists.")]
           [] raw.status = "InvalidArgument" ->
                [user |-> Nil, err |-> GRPCError("InvalidArgument", "Invalid user ID. Provide a valid ID greater than 0.")]
           [] raw.status = "DeadlineExceeded" ->
                [user |-> Nil, err |-> GRPCError("DeadlineExceeded", "User service timeout. Please try again.")]
           [] raw.status = "Unavailable" ->
                [user |-> Nil, err |-> GRPCError("Unavailable", "User service is currently unavailable. Check service status.")]
           [] raw.status = "Internal" ->
                [user |-> Nil, err |-> GRPCError("Internal", "User service internal error. Contact support if the issue persists.")]
           [] OTHER ->
                [user |-> Nil, err |-> GRPCError("Unknown", "Unexpected error from user service. Contact support if the issue persists.")]

\* GetUser without the check of lines 70-73: a success envelope is passed on
\* as it is, with whatever user it holds.
GetUserNoNilCheck(raw) ==
    IF raw.status # "OK"
    THEN handleGetUserError(raw)
    ELSE [user |-> raw.user, err |-> Nil]

\* UserClient.GetUser on the answer `raw` of the user service.
GetUser(raw) ==
    IF raw.status # "OK"
    THEN handleGetUserError(raw)
    ELSE IF raw.data # "user" \/ raw.user = Nil
         THEN [user |-> Nil, err |-> GRPCError("NotFound", "User not found. Verify the user ID exists.")]
         ELSE [user |-> raw.user, err |-> Nil]

\* Every status code asks for another attempt.
isRetryableErrorAlways(code) == TRUE

\* isRetryableError, lines 149-156.
isRetryableError(code) ==
    code \in {"Unavailable", "DeadlineExceeded", "ResourceExhausted"}

\* The first error is kept.
GetUserWithRetryFirstErr(lastErr, err) == IF lastErr = Nil THEN err ELSE lastErr

\* GetUserWithRetry, line 127: lastErr = err.
GetUserWithRetryLastErr(lastErr, err) == err

\* The backoff doubled without the cap.
GetUserWithRetryBackoffUncapped(backoff) == backoff * 2

\* GetUserWithRetry, lines 138-141: the backoff after a sleep.
GetUserWithRetryBackoff(backoff) ==
    IF backoff * 2 > retryBackoffMax THEN retryBackoffMax ELSE backoff * 2

(* ------------------------------------------------------------------ auth *)

\* Claims.UserID is a uint64: bits 63..32, bit 31 and bits 30..0.
U64(hi32, b31, lo31) == [hi32 |-> hi32, b31 |-> b31, lo31 |-> lo31]

\* int32(userID): the low 32 bits read as a two's complement number.
ToInt32(u) == IF u.b31 = 1 THEN (u.lo31 - 2147483647) - 1 ELSE u.lo31

(* ------------------------------------------------------ int32 arithmetic *)

MaxInt32 == 2147483647
MinInt32 == (-MaxInt32) - 1

\* a + b of two int32 values: the sum modulo 2^32, read as an int32.
Int32Add(a, b) ==
    IF b > 0 /\ a > MaxInt32 - b
    THEN ((a - MaxInt32) - 1) + ((b - MaxInt32) - 1)
    ELSE IF b < 0 /\ a < MinInt32 - b
    THEN ((a + MaxInt32) + 1) + ((b + MaxInt32) + 1)
    ELSE a + b

\* a * b of two int32 values, for a >= 0 and 0 <= b < 2^15: the product
\* modulo 2^32, read as an int32 (a is split into its two 16-bit halves).
Int32Mul(a, b) ==
    LET hi == ((a \div 65536) * b) % 65536
        lo == (a % 65536) * b
    IN  Int32Add(IF hi >= 32768 THEN (hi - 65536) * 65536 ELSE hi * 65536, lo)

\* a / b of two int32 values, for b > 0: Go rounds toward zero.
Int32Quo(a, b) ==
    IF a >= 0 THEN a \div b ELSE (-((-(a + b)) \div b)) - 1

\* The user ids the issued tokens carry: 1, 2, 2^32 + 2 and 2^31 + 1.
TokenUserIDs == {U64(0, 0, 1), U64(0, 0, 2), U64(1, 0, 2), U64(0, 1, 1)}

\* The incoming contexts: no authorization metadata, an authorization header
\* without the "Bearer " prefix, a bearer token that does not validate, and
\* a bearer token that validates to Claims{UserID}.
Contexts ==
    {[header |-> "none", valid |-> FALSE, UserID |-> U64(0, 0, 0)],
     [header |-> "basic", valid |-> FALSE, UserID |-> U64(0, 0, 0)],
     [header |-> "bearer", valid |-> FALSE, UserID |-> U64(0, 0, 0)]}
    \cup {[header |-> "bearer", valid |-> TRUE, UserID |-> u] : u \in TokenUserIDs}

\* RedisClient.IsTokenBlacklisted: (false, nil), (true, nil) or (false, err).
BlacklistResults == {"clean", "blacklisted", "error"}

\* errors.New(...): the sentinel errors of package auth.
ErrMissingToken == [error |-> "missing authorization"]
ErrInvalidToken == [error |-> "invalid token"]
ErrTokenBlacklisted == [error |-> "token has been revoked"]

ExtractTokenFromContext(ctx) ==
    IF ctx.header = "bearer"
    THEN [token |-> ctx, err |-> Nil]
    ELSE [token |-> Nil, err |-> ErrMissingToken]

ValidateToken(token) ==
    IF token.valid
    THEN [claims |-> [UserID |-> token.UserID], err |-> Nil]
    ELSE [claims |-> Nil, err |-> ErrInvalidToken]

\* The check letting a token through when the blacklist cannot be read.
GetUserIDFromContextFailOpen(ctx, bl) ==
    LET tok == ExtractTokenFromContext(ctx) IN
    IF tok.err # Nil THEN [userID |-> U64(0, 0, 0), err |-> tok.err]
    ELSE LET val == ValidateToken(tok.token) IN
         IF val.err # Nil THEN [userID |-> U64(0, 0, 0), err |-> val.err]
         ELSE IF bl = "blacklisted"
              THEN [userID |-> U64(0, 0, 0), err |-> ErrTokenBlacklisted]
              ELSE [userID |-> val.claims.UserID, err |-> Nil]

\* GetUserIDFromContextWithBlacklist: the token, its validation, then the
\* blacklist; an error of the blacklist check is returned as an error.
GetUserIDFromContextWithBlacklist(ctx, bl) ==
    LET tok == ExtractTokenFromContext(ctx) IN
    IF tok.err # Nil THEN [userID |-> U64(0, 0, 0), err |-> tok.err]
    ELSE LET val == ValidateToken(tok.token) IN
         IF val.err # Nil THEN [userID |-> U64(0, 0, 0), err |-> val.err]
         ELSE IF bl = "error"
              THEN [userID |-> U64(0, 0, 0), err |-> [error |-> "failed to check token blacklist"]]
              ELSE IF bl = "blacklisted"
                   THEN [userID |-> U64(0, 0, 0), err |-> ErrTokenBlacklisted]
                   ELSE [userID |-> val.claims.UserID, err |-> Nil]

(* ------------------------------------------------------------ repository *)

\* The articles table is the sequence of its rows in insertion order; ids
\* come from a serial column and created_at grows with every insert.

\* GetByID: the row, or Nil for "no rows".
GetByID(rows, id) ==
    LET hits == SelectSeq(rows, LAMBDA r : r.Id = id) IN
    IF hits = <<>> THEN Nil ELSE hits[1]

\* Create: INSERT ... RETURNING.
Create(rows, id, title, content, userId) ==
    LET row == [Id |-> id, Title |-> title, Content |-> content, UserId |-> userId]
    IN  [article |-> row, rows |-> Append(rows, row)]

\* Update: UPDATE ... SET title, content WHERE id RETURNING: the row as it
\* is after the statement (Nil for "no rows") and the table.
Update(rows, id, title, content) ==
    LET rows2 == [i \in 1..Len(rows) |->
                     IF rows[i].Id = id
                     THEN [rows[i] EXCEPT !.Title = title, !.Content = content]
                     ELSE rows[i]]
    IN  [article |-> GetByID(rows2, id), rows |-> rows2]

\* A delete that reports the row as affected and leaves it in the table.
DeleteKeepsRow(rows, id) ==
    [rows |-> rows, affected |-> Len(SelectSeq(rows, LAMBDA r : r.Id = id))]

\* Delete: the table without the row, and the number of rows affected.
Delete(rows, id) ==
    LET rest == SelectSeq(rows, LAMBDA r : r.Id # id) IN
    [rows |-> rest, affected |-> Len(rows) - Len(rest)]

Reverse(s) == [i \in 1..Len(s) |-> s[Len(s) + 1 - i]]

\* ORDER BY created_at DESC LIMIT limit OFFSET offset.
Page(s, limit, offset) ==
    LET desc == Reverse(s)
        last == IF offset + limit < Len(desc) THEN offset + limit ELSE Len(desc)
    IN  IF offset >= Len(desc) THEN <<>> ELSE SubSeq(desc, offset + 1, last)

\* ListAll and ListByUser run two statements, one after the other and
\* outside any transaction: the page of rows, then COUNT(*).
ListAllRows(rows, limit, offset) == Page(rows, limit, offset)

ListAllCount(rows) == Len(rows)

ListByUserRows(rows, userID, limit, offset) ==
    Page(SelectSeq(rows, LAMBDA r : r.UserId = userID), limit, offset)

ListByUserCount(rows, userID) ==
    Len(SelectSeq(rows, LAMBDA r : r.UserId = userID))

\* Both statements on one and the same state of the table.
ListAll(rows, limit, offset) ==
    [articles |-> ListAllRows(rows, limit, offset), total |-> ListAllCount(rows)]

ListByUser(rows, userID, limit, offset) ==
    [articles |-> ListByUserRows(rows, userID, limit, offset),
     total |-> ListByUserCount(rows, userID)]

(* ----------------------------------------------------------------- state *)

VARIABLES
    articles,   \* the articles table
    nextId,     \* the next value of the id sequence
    resp,       \* the response on its way to the caller, with the request it
                \* answers and the upstream calls its handler made
    listing,    \* the ListArticles request that has read its page of rows
                \* and has not yet counted (handlers run concurrently)
    retry,      \* the GetUserWithRetry call in progress
    calc,       \* a pure function of the program, its input and its result
    writers,    \* the UpdateArticle and DeleteArticle requests that have read
                \* their row and have not yet written (handlers run
                \* concurrently)
    served      \* for the record: the answer the caller received last

vars == <<articles, nextId, resp, listing, retry, calc, writers, served>>

\* No request is being answered.
NoResponse ==
    [op |-> "none", req |-> Nil, code |-> "", message |-> "", data |-> Nil, calls |-> <<>>]

\* No ListArticles request is between its two queries.
NotListing == [pc |-> "idle", req |-> Nil, articles |-> <<>>]

\* No GetUserWithRetry call is in progress.  Of a call in progress:
\* where it is (pc), the user asked for, the attempts allowed, the loop's
\* attempt, backoff and lastErr, whether the caller's context is cancelled,
\* and, for the record, the answer and the error of every attempt made,
\* the sleeps slept, where the call was when the context was cancelled, and
\* what the call returned.
NotRetrying ==
    [pc |-> "idle", userID |-> 0, maxRetries |-> 0, attempt |-> 0, backoff |-> 0,
     lastErr |-> Nil, cancelled |-> FALSE, attempts |-> <<>>, sleeps |-> <<>>,
     cancelAt |-> Nil, result |-> Nil]

\* No function is being applied.
NoCalc == [fn |-> "none", in |-> Nil, out |-> Nil]

\* No request has been answered yet.  Of the answer served last: the operation and, for a GetArticle, the id
\* asked for, the code, the author in the answer, the number of upstream
\* lookups made and what the user service answered.
NothingServed ==
    [op |-> "none", id |-> 0, code |-> "", author |-> Nil, calls |-> 0, lookup |-> "none"]

Init ==
    /\ articles = <<>>
    /\ nextId = 1
    /\ resp = NoResponse
    /\ listing = NotListing
    /\ retry = NotRetrying
    /\ calc = NoCalc
    /\ writers = {}
    /\ served = NothingServed

(* ---------------------------------------------------------------- inputs *)

Titles == {"", "T"}
Contents == {"", "C"}

\* CreateArticleRequest{Title, Content, UserId}: UserId is the body's author id.
CreateArticleRequests ==
    [Title : Titles, Content : Contents, UserId : {0, 1, 2}]

\* UpdateArticleRequest{Id, Title, Content}.
UpdateArticleRequests ==
    [Id : -1..MaxArticles, Title : {"", "T2"}, Content : {"", "X"}]

\* GetArticleRequest{Id} and DeleteArticleRequest{Id}.
ArticleIds == -1..MaxArticles

\* ListArticlesRequest{PageSize, PageNumber, UserId}.
ListArticlesRequests ==
    [PageSize : {0, 1, 101}, PageNumber : {0, 1, 2}, UserId : {0, 1}]

(* -------------------------------------------------------------- handlers *)

\* A request is answered: its inputs, its envelope and the
\* upstream calls it made (each with the id asked for and the answer
\* received) are recorded.
Reply(op, req, envelope, calls) ==
    resp' = [op |-> op, req |-> req, code |-> envelope.code,
             message |-> envelope.message, data |-> envelope.data, calls |-> calls]

\* The caller receives the envelope; the next request can be handled.
ReturnResponse ==
    /\ resp # NoResponse
    /\ UNCHANGED <<writers, served>>
    /\ resp' = NoResponse
    /\ UNCHANGED <<articles, nextId, listing, retry, calc>>

\* The caller receives the envelope, and what it received is kept for the
\* record.
ReturnResponseRecorded ==
    /\ resp # NoResponse
    /\ resp' = NoResponse
    /\ served' = IF resp.op = "GetArticle"
                 THEN [op |-> "GetArticle",
                       id |-> resp.req.Id,
                       code |-> resp.code,
                       author |-> IF resp.code = CodeSuccess THEN resp.data.Article.User ELSE Nil,
                       calls |-> Len(resp.calls),
                       lookup |-> IF resp.calls = <<>> THEN "none" ELSE resp.calls[1].raw.status]
                 ELSE [NothingServed EXCEPT !.op = resp.op]
    /\ UNCHANGED <<articles, nextId, listing, retry, calc, writers>>

\* convertUser with Name and Email filled from each other's field.
convertUserSwapped(userServiceUser) ==
    IF userServiceUser = Nil
    THEN Nil
    ELSE [Id |-> userServiceUser.Id,
          Name |-> userServiceUser.Email,
          Email |-> userServiceUser.Name,
          CreatedAt |-> userServiceUser.CreatedAt,
          UpdatedAt |-> userServiceUser.UpdatedAt]

convertUser(userServiceUser) ==
    IF userServiceUser = Nil
    THEN Nil
    ELSE [Id |-> userServiceUser.Id,
          Name |-> userServiceUser.Name,
          Email |-> userServiceUser.Email,
          CreatedAt |-> userServiceUser.CreatedAt,
          UpdatedAt |-> userServiceUser.UpdatedAt]

\* CreateArticle, lines 59-67: the envelope of a failed authentication.
CreateArticleAuthError(err) ==
    IF err = ErrTokenBlacklisted
    THEN ErrorResponse("Unauthenticated", "token has been revoked")
    ELSE ErrorResponse("Unauthenticated", "authentication required")

\* The verification switch passing the upstream NotFound on as not-found.
CreateArticleVerifyErrorPassThrough(code) ==
    CASE code = "NotFound" ->
            ErrorResponse("NotFound", "user with ID %d not found")
      [] code = "Unavailable" ->
            ErrorResponse("Unavailable", "user service is currently unavailable, please try again later")
      [] code = "DeadlineExceeded" ->
            ErrorResponse("DeadlineExceeded", "request timeout while verifying user")
      [] OTHER ->
            ErrorResponse("Internal", "failed to verify user")

\* CreateArticle, lines 82-98: the envelope of a failed author verification.
CreateArticleVerifyError(code) ==
    CASE code = "NotFound" ->
            ErrorResponse("InvalidArgument", "user with ID %d not found")
      [] code = "Unavailable" ->
            ErrorResponse("Unavailable", "user service is currently unavailable, please try again later")
      [] code = "DeadlineExceeded" ->
            ErrorResponse("DeadlineExceeded", "request timeout while verifying user")
      [] OTHER ->
            ErrorResponse("Internal", "failed to verify user")

\* The lookup made with the author id of the request body.
CreateArticleLookupIDFromBody(userID, req) == req.UserId

\* CreateArticle, line 81: the id asked of the user service.
CreateArticleLookupID(userID, req) == ToInt32(userID)

\* CreateArticle, line 101: the author id stored with the row.
CreateArticleAuthorID(userID, req) == ToInt32(userID)

\* The checks with the title and the content validated before authentication.
CreateArticleChecksValidateFirst(ctx, bl, req) ==
    LET auth == GetUserIDFromContextWithBlacklist(ctx, bl) IN
    IF req.Title = ""
    THEN [envelope |-> ErrorResponse("InvalidArgument", "title is required"), userID |-> auth.userID]
    ELSE IF req.Content = ""
    THEN [envelope |-> ErrorResponse("InvalidArgument", "content is required"), userID |-> auth.userID]
    ELSE IF auth.err # Nil
    THEN [envelope |-> CreateArticleAuthError(auth.err), userID |-> auth.userID]
    ELSE [envelope |-> Nil, userID |-> auth.userID]

\* CreateArticle, lines 58-77: authentication, then the title, then the
\* content.  The envelope of the first check that fails, or Nil and the
\* authenticated user id.
CreateArticleChecks(ctx, bl, req) ==
    LET auth == GetUserIDFromContextWithBlacklist(ctx, bl) IN
    IF auth.err # Nil
    THEN [envelope |-> CreateArticleAuthError(auth.err), userID |-> auth.userID]
    ELSE IF req.Title = ""
    THEN [envelope |-> ErrorResponse("InvalidArgument", "title is required"), userID |-> auth.userID]
    ELSE IF req.Content = ""
    THEN [envelope |-> ErrorResponse("InvalidArgument", "content is required"), userID |-> auth.userID]
    ELSE [envelope |-> Nil, userID |-> auth.userID]

CreateArticle ==
    /\ resp = NoResponse
    /\ UNCHANGED <<writers, served>>
    /\ \E ctx \in Contexts, bl \in BlacklistResults, req \in CreateArticleRequests :
           LET in == [ctx |-> ctx, blacklist |-> bl, Title |-> req.Title,
                      Content |-> req.Content, UserId |-> req.UserId]
               pre == CreateArticleChecks(ctx, bl, req)
           IN
           IF pre.envelope # Nil
           THEN /\ Reply("CreateArticle", in, pre.envelope, <<>>)
                /\ UNCHANGED <<articles, nextId, listing, retry, calc>>
           ELSE \E kind \in UpstreamKinds :
               LET id == CreateArticleLookupID(pre.userID, req)
                   raw == UpstreamGetUser(kind, id)
                   got == GetUser(raw)
                   calls == <<[userID |-> id, raw |-> raw]>>
               IN
               IF got.err # Nil
               THEN /\ Reply("CreateArticle", in, CreateArticleVerifyError(got.err.code), calls)
                    /\ UNCHANGED <<articles, nextId, listing, retry, calc>>
               ELSE \E dbOk \in BOOLEAN :
                   IF ~dbOk
                   THEN /\ Reply("CreateArticle", in, ErrorResponse("Internal", "failed to create article"), calls)
                        /\ UNCHANGED <<articles, nextId, listing, retry, calc>>
                   ELSE LET made == Create(articles, nextId, req.Title, req.Content,
                                           CreateArticleAuthorID(pre.userID, req))
                        IN  /\ nextId <= MaxArticles
                            /\ articles' = made.rows
                            /\ nextId' = nextId + 1
                            /\ UNCHANGED <<listing, retry, calc>>
                            /\ Reply("CreateArticle", in, SuccessResponse([Article |-> made.article]), calls)

\* The lookup switch degrading on NotFound alone.
GetArticleWithUserLookupErrorNotFoundOnly(article, code) ==
    CASE code = "NotFound" ->
            [article |-> [Article |-> article, User |-> Nil], err |-> Nil]
      [] OTHER ->
            [article |-> Nil,
             err |-> GRPCError("Internal", "Failed to get user from user service. Contact support if the issue persists.")]

\* GetArticleWithUser, lines 154-173: the author lookup failed with `code`.
\* The result is the (ArticleWithUser, error) pair returned.
GetArticleWithUserLookupError(article, code) ==
    CASE code = "NotFound" ->
            [article |-> [Article |-> article, User |-> Nil], err |-> Nil]
      [] code \in {"Unavailable", "DeadlineExceeded"} ->
            [article |-> [Article |-> article, User |-> Nil], err |-> Nil]
      [] OTHER ->
            [article |-> Nil,
             err |-> GRPCError("Internal", "Failed to get user from user service. Contact support if the issue persists.")]

\* GetArticleWithUser remembering a lookup that failed: an article served
\* last without its author is served so again, the user service not asked.
GetArticleWithUserRemembered(rows, id, dbOk, kind) ==
    IF /\ served.op = "GetArticle"
       /\ served.id = id
       /\ served.code = CodeSuccess
       /\ served.author = Nil
       /\ dbOk
       /\ id > 0
       /\ GetByID(rows, id) # Nil
    THEN [article |-> [Article |-> GetByID(rows, id), User |-> Nil], calls |-> <<>>, err |-> Nil]
    ELSE IF id <= 0
    THEN [article |-> Nil, calls |-> <<>>,
          err |-> GRPCError("InvalidArgument", "Article ID must be positive. Provide a valid ID greater than 0.")]
    ELSE IF ~dbOk
    THEN [article |-> Nil, calls |-> <<>>,
          err |-> GRPCError("Internal", "Failed to get article. Contact support if the issue persists.")]
    ELSE LET article == GetByID(rows, id) IN
         IF article = Nil
         THEN [article |-> Nil, calls |-> <<>>,
               err |-> GRPCError("NotFound", "Article not found. Verify the article ID exists.")]
         ELSE LET raw == UpstreamGetUser(kind, article.UserId)
                  got == GetUser(raw)
                  calls == <<[userID |-> article.UserId, raw |-> raw]>>
              IN  IF got.err # Nil
                  THEN LET out == GetArticleWithUserLookupError(article, got.err.code)
                       IN  [article |-> out.article, calls |-> calls, err |-> out.err]
                  ELSE [article |-> [Article |-> article, User |-> convertUser(got.user)],
                        calls |-> calls, err |-> Nil]

\* GetArticleWithUser on the table `rows`: dbOk is whether the query ran
\* without a storage error, kind is what the user service does when asked.
GetArticleWithUser(rows, id, dbOk, kind) ==
    IF id <= 0
    THEN [article |-> Nil, calls |-> <<>>,
          err |-> GRPCError("InvalidArgument", "Article ID must be positive. Provide a valid ID greater than 0.")]
    ELSE IF ~dbOk
    THEN [article |-> Nil, calls |-> <<>>,
          err |-> GRPCError("Internal", "Failed to get article. Contact support if the issue persists.")]
    ELSE LET article == GetByID(rows, id) IN
         IF article = Nil
         THEN [article |-> Nil, calls |-> <<>>,
               err |-> GRPCError("NotFound", "Article not found. Verify the article ID exists.")]
         ELSE LET raw == UpstreamGetUser(kind, article.UserId)
                  got == GetUser(raw)
                  calls == <<[userID |-> article.UserId, raw |-> raw]>>
              IN  IF got.err # Nil
                  THEN LET out == GetArticleWithUserLookupError(article, got.err.code)
                       IN  [article |-> out.article, calls |-> calls, err |-> out.err]
                  ELSE [article |-> [Article |-> article, User |-> convertUser(got.user)],
                        calls |-> calls, err |-> Nil]

GetArticle ==
    /\ resp = NoResponse
    /\ UNCHANGED <<writers, served>>
    /\ \E id \in ArticleIds :
           /\ UNCHANGED <<articles, nextId, listing, retry, calc>>
           /\ IF id <= 0
              THEN Reply("GetArticle", [Id |-> id],
                         ErrorResponse("InvalidArgument", "article ID must be positive"), <<>>)
              ELSE \E dbOk \in BOOLEAN :
                   \E kind \in (IF dbOk /\ GetByID(articles, id) # Nil THEN UpstreamKinds ELSE {"OK"}) :
                       LET got == GetArticleWithUser(articles, id, dbOk, kind) IN
                       IF got.err # Nil
                       THEN Reply("GetArticle", [Id |-> id],
                                  ErrorResponse(got.err.code, got.err.message), got.calls)
                       ELSE Reply("GetArticle", [Id |-> id],
                                  SuccessResponse([Article |-> got.article]), got.calls)

\* fmt.Sprintf("%d", n) for n >= 0.
RECURSIVE Itoa(_)
Itoa(n) ==
    LET digit == <<"0", "1", "2", "3", "4", "5", "6", "7", "8", "9">> IN
    IF n < 10 THEN digit[n + 1] ELSE Itoa(n \div 10) \o digit[(n % 10) + 1]

\* The request's fields written as they are, empty or not.
UpdateArticleFieldsAsSent(existing, req) ==
    [title |-> req.Title, content |-> req.Content]

\* UpdateArticle, lines 250-258: an omitted field keeps its stored value.
UpdateArticleFields(existing, req) ==
    [title |-> IF req.Title = "" THEN existing.Title ELSE req.Title,
     content |-> IF req.Content = "" THEN existing.Content ELSE req.Content]

\* UpdateArticle; the request is recorded with the row as it was stored
\* when the handler read it.
UpdateArticle ==
    /\ resp = NoResponse
    /\ UNCHANGED <<writers, served>>
    /\ \E req \in UpdateArticleRequests :
           LET in == [Id |-> req.Id, Title |-> req.Title, Content |-> req.Content,
                      was |-> IF req.Id > 0 THEN GetByID(articles, req.Id) ELSE Nil]
           IN
           IF req.Id <= 0
           THEN /\ Reply("UpdateArticle", in,
                         ErrorResponse("InvalidArgument", "article ID must be positive"), <<>>)
                /\ UNCHANGED <<articles, nextId, listing, retry, calc>>
           ELSE IF req.Title = "" /\ req.Content = ""
           THEN /\ Reply("UpdateArticle", in,
                         ErrorResponse("InvalidArgument", "at least title or content must be provided"), <<>>)
                /\ UNCHANGED <<articles, nextId, listing, retry, calc>>
           ELSE \E getOk \in BOOLEAN :
               IF ~getOk
               THEN /\ Reply("UpdateArticle", in,
                             ErrorResponse("Internal", "failed to check article"), <<>>)
                    /\ UNCHANGED <<articles, nextId, listing, retry, calc>>
               ELSE IF GetByID(articles, req.Id) = Nil
               THEN /\ Reply("UpdateArticle", in,
                             ErrorResponse("NotFound", "article with ID " \o Itoa(req.Id) \o " not found"), <<>>)
                    /\ UNCHANGED <<articles, nextId, listing, retry, calc>>
               ELSE \E updOk \in BOOLEAN :
                   LET fields == UpdateArticleFields(GetByID(articles, req.Id), req)
                       upd == Update(articles, req.Id, fields.title, fields.content)
                   IN
                   IF ~updOk \/ upd.article = Nil
                   THEN /\ Reply("UpdateArticle", in,
                                 ErrorResponse("Internal", "failed to update article"), <<>>)
                        /\ UNCHANGED <<articles, nextId, listing, retry, calc>>
                   ELSE /\ articles' = upd.rows
                        /\ UNCHANGED <<nextId, listing, retry, calc>>
                        /\ Reply("UpdateArticle", in,
                                 SuccessResponse([Article |-> upd.article]), <<>>)

\* DeleteArticleSuccess: the data of a successful DeleteArticle.
DeleteArticleSuccess == SuccessResponse([Success |-> TRUE])

\* DeleteArticle; the request is recorded with the row as it was stored
\* when the handler loaded it.
DeleteArticle ==
    /\ resp = NoResponse
    /\ UNCHANGED <<writers, served>>
    /\ \E id \in ArticleIds :
           LET in == [Id |-> id, was |-> IF id > 0 THEN GetByID(articles, id) ELSE Nil] IN
           IF id <= 0
           THEN /\ Reply("DeleteArticle", in,
                         ErrorResponse("InvalidArgument", "article ID must be positive"), <<>>)
                /\ UNCHANGED <<articles, nextId, listing, retry, calc>>
           ELSE \E getOk \in BOOLEAN :
               IF ~getOk
               THEN /\ Reply("DeleteArticle", in,
                             ErrorResponse("Internal", "failed to check article"), <<>>)
                    /\ UNCHANGED <<articles, nextId, listing, retry, calc>>
               ELSE IF GetByID(articles, id) = Nil
               THEN /\ Reply("DeleteArticle", in,
                             ErrorResponse("NotFound", "article not found"), <<>>)
                    /\ UNCHANGED <<articles, nextId, listing, retry, calc>>
               ELSE \E delOk \in BOOLEAN :
                   LET del == Delete(articles, id) IN
                   IF ~delOk \/ del.affected = 0
                   THEN /\ Reply("DeleteArticle", in,
                                 ErrorResponse("Internal", "failed to delete article"), <<>>)
                        /\ UNCHANGED <<articles, nextId, listing, retry, calc>>
                   ELSE /\ articles' = del.rows
                        /\ UNCHANGED <<nextId, listing, retry, calc>>
                        /\ Reply("DeleteArticle", in, DeleteArticleSuccess, <<>>)

(* ------------------------------------- UpdateArticle, DeleteArticle in steps *)

\* A request in progress takes the first free goroutine.
FreeWriter == CHOOSE k \in 1..MaxWriters : \A w \in writers : w.slot # k

\* UpdateArticle, lines 235-248: validation and the load of the row; other
\* handlers may run before the write.
UpdateArticleRead ==
    /\ resp = NoResponse
    /\ Cardinality(writers) < MaxWriters
    /\ UNCHANGED <<articles, nextId, listing, retry, calc, served>>
    /\ \E req \in UpdateArticleRequests :
           LET in == [Id |-> req.Id, Title |-> req.Title, Content |-> req.Content,
                      was |-> IF req.Id > 0 THEN GetByID(articles, req.Id) ELSE Nil,
                      atWrite |-> Nil, storage |-> "none"]
           IN
           IF req.Id <= 0
           THEN /\ Reply("UpdateArticle", in,
                         ErrorResponse("InvalidArgument", "article ID must be positive"), <<>>)
                /\ UNCHANGED writers
           ELSE IF req.Title = "" /\ req.Content = ""
           THEN /\ Reply("UpdateArticle", in,
                         ErrorResponse("InvalidArgument", "at least title or content must be provided"), <<>>)
                /\ UNCHANGED writers
           ELSE \E getOk \in BOOLEAN :
               IF ~getOk
               THEN /\ Reply("UpdateArticle", in,
                             ErrorResponse("Internal", "failed to check article"), <<>>)
                    /\ UNCHANGED writers
               ELSE IF GetByID(articles, req.Id) = Nil
               THEN /\ Reply("UpdateArticle", in,
                             ErrorResponse("NotFound", "article with ID " \o Itoa(req.Id) \o " not found"), <<>>)
                    /\ UNCHANGED writers
               ELSE /\ writers' = writers \cup
                                      {[slot |-> FreeWriter, op |-> "UpdateArticle", req |-> req,
                                        existing |-> GetByID(articles, req.Id)]}
                    /\ UNCHANGED resp

\* UpdateArticle, lines 250-267: the write, with the fields made from the
\* row as it was loaded, and the answer.  The request is recorded with the
\* row as loaded (was) and as stored just before the write (atWrite).
UpdateArticleWrite ==
    /\ resp = NoResponse
    /\ UNCHANGED <<nextId, listing, retry, calc, served>>
    /\ \E w \in writers :
           /\ w.op = "UpdateArticle"
           /\ writers' = writers \ {w}
           /\ \E updOk \in BOOLEAN :
                  LET fields == UpdateArticleFields(w.existing, w.req)
                      upd == Update(articles, w.req.Id, fields.title, fields.content)
                      in == [Id |-> w.req.Id, Title |-> w.req.Title, Content |-> w.req.Content,
                             was |-> w.existing, atWrite |-> GetByID(articles, w.req.Id),
                             storage |-> IF updOk THEN "ok" ELSE "failed"]
                  IN
                  IF ~updOk \/ upd.article = Nil
                  THEN /\ Reply("UpdateArticle", in,
                                ErrorResponse("Internal", "failed to update article"), <<>>)
                       /\ UNCHANGED articles
                  ELSE /\ articles' = upd.rows
                       /\ Reply("UpdateArticle", in,
                                SuccessResponse([Article |-> upd.article]), <<>>)

\* DeleteArticle, lines 273-284: validation and the existence check; other
\* handlers may run before the delete.
DeleteArticleCheck ==
    /\ resp = NoResponse
    /\ Cardinality(writers) < MaxWriters
    /\ UNCHANGED <<articles, nextId, listing, retry, calc, served>>
    /\ \E id \in ArticleIds :
           LET in == [Id |-> id, was |-> IF id > 0 THEN GetByID(articles, id) ELSE Nil,
                      atWrite |-> Nil, storage |-> "none"]
           IN
           IF id <= 0
           THEN /\ Reply("DeleteArticle", in,
                         ErrorResponse("InvalidArgument", "article ID must be positive"), <<>>)
                /\ UNCHANGED writers
           ELSE \E getOk \in BOOLEAN :
               IF ~getOk
               THEN /\ Reply("DeleteArticle", in,
                             ErrorResponse("Internal", "failed to check article"), <<>>)
                    /\ UNCHANGED writers
               ELSE IF GetByID(articles, id) = Nil
               THEN /\ Reply("DeleteArticle", in,
                             ErrorResponse("NotFound", "article not found"), <<>>)
                    /\ UNCHANGED writers
               ELSE /\ writers' = writers \cup
                                      {[slot |-> FreeWriter, op |-> "DeleteArticle", req |-> [Id |-> id],
                                        existing |-> GetByID(articles, id)]}
                    /\ UNCHANGED resp

\* DeleteArticle, lines 286-292: the delete and the answer.
DeleteArticleWrite ==
    /\ resp = NoResponse
    /\ UNCHANGED <<nextId, listing, retry, calc, served>>
    /\ \E w \in writers :
           /\ w.op = "DeleteArticle"
           /\ writers' = writers \ {w}
           /\ \E delOk \in BOOLEAN :
                  LET del == Delete(articles, w.req.Id)
                      in == [Id |-> w.req.Id, was |-> w.existing,
                             atWrite |-> GetByID(articles, w.req.Id),
                             storage |-> IF delOk THEN "ok" ELSE "failed"]
                  IN
                  IF ~delOk \/ del.affected = 0
                  THEN /\ Reply("DeleteArticle", in,
                                ErrorResponse("Internal", "failed to delete article"), <<>>)
                       /\ UNCHANGED articles
                  ELSE /\ articles' = del.rows
                       /\ Reply("DeleteArticle", in, DeleteArticleSuccess, <<>>)

\* ListArticles, lines 299-310: the normalized page size and page number.
NormalizePageSize(pageSize) ==
    LET p == IF pageSize <= 0 THEN defaultPageSize ELSE pageSize
    IN  IF p > maxPageSize THEN maxPageSize ELSE p

NormalizePageNumber(pageNumber) == IF pageNumber < 1 THEN 1 ELSE pageNumber

\* ListArticles, lines 299-326: what the request asks of the storage.
ListArticlesParams(req) ==
    LET pageSize == NormalizePageSize(req.PageSize)
        pageNumber == NormalizePageNumber(req.PageNumber)
    IN  [pageSize |-> pageSize,
         pageNumber |-> pageNumber,
         limit |-> pageSize,
         offset |-> Int32Mul(pageNumber - 1, pageSize),
         filtered |-> req.UserId > 0,
         userID |-> req.UserId]

\* ListArticles, lines 320-326: the page of rows the storage returns.
ListArticlesQueryRows(rows, req) ==
    LET q == ListArticlesParams(req) IN
    IF q.filtered
    THEN ListByUserRows(rows, q.userID, q.limit, q.offset)
    ELSE ListAllRows(rows, q.limit, q.offset)

\* ListArticles, lines 320-326: the total the storage returns.
ListArticlesQueryCount(rows, req) ==
    LET q == ListArticlesParams(req) IN
    IF q.filtered THEN ListByUserCount(rows, q.userID) ELSE ListAllCount(rows)

\* ListArticles, lines 320-326: both on one state of the table.
ListArticlesQuery(rows, req) ==
    LET q == ListArticlesParams(req) IN
    IF q.filtered
    THEN ListByUser(rows, q.userID, q.limit, q.offset)
    ELSE ListAll(rows, q.limit, q.offset)

\* ListArticles, line 351: (total + pageSize - 1) / pageSize in int32.
ListArticlesTotalPages(total, pageSize) ==
    Int32Quo(Int32Add(Int32Add(total, pageSize), -1), pageSize)

\* ListArticles, lines 335-346: the entry of one row, given what its lookup returned.
ListArticlesEntry(article, got) ==
    [Article |-> article,
     User |-> convertUser(IF got.err # Nil THEN Nil ELSE got.user)]

\* The enrichment leaving out the rows whose lookup failed.
ListArticlesEnrichSkipFailed(rows, kinds) ==
    LET all == [i \in 1..Len(rows) |->
                   [Article |-> rows[i],
                    User |-> convertUser(GetUser(UpstreamGetUser(kinds[i], rows[i].UserId)).user)]]
    IN  SelectSeq(all, LAMBDA e : e.User # Nil)

\* ListArticles, lines 334-346: the entries of the rows, kinds[i] being what
\* the user service does at the lookup of the i-th row.
ListArticlesEnrich(rows, kinds) ==
    [i \in 1..Len(rows) |->
        ListArticlesEntry(rows[i], GetUser(UpstreamGetUser(kinds[i], rows[i].UserId)))]

\* ListArticles, lines 332-353: the envelope for the page `rows` and the
\* total, and the lookups made for it.
ListArticlesAnswer(req, rows, total, kinds) ==
    [envelope |->
        SuccessResponse([Articles |-> ListArticlesEnrich(rows, kinds),
                         Total |-> total,
                         Page |-> ListArticlesParams(req).pageNumber,
                         TotalPages |-> ListArticlesTotalPages(total, ListArticlesParams(req).pageSize)]),
     calls |-> [i \in 1..Len(rows) |->
                   [userID |-> rows[i].UserId,
                    raw |-> UpstreamGetUser(kinds[i], rows[i].UserId)]]]

\* ListArticles with no other request between its two queries.
ListArticles ==
    /\ resp = NoResponse
    /\ UNCHANGED <<writers, served>>
    /\ listing = NotListing
    /\ \E req \in ListArticlesRequests, dbOk \in BOOLEAN :
           /\ UNCHANGED <<articles, nextId, listing, retry, calc>>
           /\ IF ~dbOk
              THEN Reply("ListArticles", req,
                         ErrorResponse("Internal", "failed to list articles"), <<>>)
              ELSE LET got == ListArticlesQuery(articles, req) IN
                   \E kinds \in [1..Len(got.articles) -> UpstreamKinds] :
                       LET answer == ListArticlesAnswer(req, got.articles, got.total, kinds)
                       IN  Reply("ListArticles", req, answer.envelope, answer.calls)

\* ListArticles up to the end of the rows statement: other handlers may
\* run before the count.
ListArticlesRows ==
    /\ resp = NoResponse
    /\ UNCHANGED <<writers, served>>
    /\ listing = NotListing
    /\ \E req \in ListArticlesRequests, dbOk \in BOOLEAN :
           /\ UNCHANGED <<articles, nextId, retry, calc>>
           /\ IF ~dbOk
              THEN /\ Reply("ListArticles", req,
                            ErrorResponse("Internal", "failed to list articles"), <<>>)
                   /\ UNCHANGED listing
              ELSE /\ listing' = [pc |-> "count", req |-> req,
                                  articles |-> ListArticlesQueryRows(articles, req)]
                   /\ UNCHANGED resp

\* ListArticles from the count statement to its answer.
ListArticlesCount ==
    /\ resp = NoResponse
    /\ UNCHANGED <<writers, served>>
    /\ listing.pc = "count"
    /\ listing' = NotListing
    /\ UNCHANGED <<articles, nextId, retry, calc>>
    /\ \E dbOk \in BOOLEAN :
           IF ~dbOk
           THEN Reply("ListArticles", listing.req,
                      ErrorResponse("Internal", "failed to list articles"), <<>>)
           ELSE \E kinds \in [1..Len(listing.articles) -> UpstreamKinds] :
                    LET answer == ListArticlesAnswer(listing.req, listing.articles,
                                                     ListArticlesQueryCount(articles, listing.req),
                                                     kinds)
                    IN  Reply("ListArticles", listing.req, answer.envelope, answer.calls)

(* ------------------------------------------------------ GetUserWithRetry *)

\* The users GetUserWithRetry is asked for: one the directory holds, one it
\* does not.
RetryUserIDs == {1, 3}

\* The number of attempts the policy is configured with.
ConfiguredRetries == 1..MaxConfiguredRetries

\* GetUserWithRetry, lines 116-118: the call begins.
GetUserWithRetryCall ==
    /\ retry = NotRetrying
    /\ UNCHANGED <<writers, served>>
    /\ \E userID \in RetryUserIDs, n \in ConfiguredRetries :
           retry' = [NotRetrying EXCEPT !.pc = "attempt", !.userID = userID,
                                        !.maxRetries = n, !.attempt = 1,
                                        !.backoff = retryBackoffInitial]
    /\ UNCHANGED <<articles, nextId, resp, listing, calc>>

\* GetUserWithRetry, lines 120-136: one attempt, up to the sleep or the
\* return.  A call made with a cancelled context ends with status Canceled.
GetUserWithRetryAttempt ==
    /\ retry.pc = "attempt"
    /\ UNCHANGED <<writers, served>>
    /\ UNCHANGED <<articles, nextId, resp, listing, calc>>
    /\ \E kind \in (IF retry.cancelled THEN {"Canceled"} ELSE UpstreamKinds) :
           LET raw == UpstreamGetUser(kind, retry.userID)
               got == GetUser(raw)
               log == Append(retry.attempts, [raw |-> raw, err |-> got.err])
               lastErr == GetUserWithRetryLastErr(retry.lastErr, got.err)
           IN
           IF got.err = Nil
           THEN retry' = [retry EXCEPT !.pc = "done", !.attempts = log,
                                       !.result = [user |-> got.user, err |-> Nil]]
           ELSE IF ~isRetryableError(got.err.code)
           THEN retry' = [retry EXCEPT !.pc = "done", !.attempts = log, !.lastErr = lastErr,
                                       !.result = [user |-> Nil, err |-> got.err]]
           ELSE IF retry.attempt < retry.maxRetries
           THEN retry' = [retry EXCEPT !.pc = "sleep", !.attempts = log, !.lastErr = lastErr]
           ELSE retry' = [retry EXCEPT !.pc = "done", !.attempts = log, !.lastErr = lastErr,
                                       !.attempt = @ + 1,
                                       !.result = [user |-> Nil, err |-> lastErr]]

\* GetUserWithRetry, lines 137-141: time.Sleep(backoff) returns when the
\* backoff has elapsed, whatever became of the context; the backoff doubles
\* up to the cap and the loop goes on.
GetUserWithRetrySleep ==
    /\ retry.pc = "sleep"
    /\ UNCHANGED <<writers, served>>
    /\ retry' = [retry EXCEPT !.pc = "attempt",
                              !.sleeps = Append(@, retry.backoff),
                              !.backoff = GetUserWithRetryBackoff(retry.backoff),
                              !.attempt = @ + 1]
    /\ UNCHANGED <<articles, nextId, resp, listing, calc>>

\* The caller cancels the context of the call, during an attempt or
\* during a sleep.
GetUserWithRetryCancel ==
    /\ retry.pc \in {"attempt", "sleep"}
    /\ UNCHANGED <<writers, served>>
    /\ ~retry.cancelled
    /\ retry' = [retry EXCEPT !.cancelled = TRUE,
                              !.cancelAt = [pc |-> retry.pc,
                                            attempts |-> Len(retry.attempts),
                                            sleeps |-> Len(retry.sleeps)]]
    /\ UNCHANGED <<articles, nextId, resp, listing, calc>>

\* The caller takes the (user, error) pair.
GetUserWithRetryReturn ==
    /\ retry.pc = "done"
    /\ UNCHANGED <<writers, served>>
    /\ retry' = NotRetrying
    /\ UNCHANGED <<articles, nextId, resp, listing, calc>>

NextRetry ==
    \/ GetUserWithRetryCall
    \/ GetUserWithRetryAttempt
    \/ GetUserWithRetrySleep
    \/ GetUserWithRetryCancel
    \/ GetUserWithRetryReturn

SpecRetry == Init /\ [][NextRetry]_vars

(* ------------------------------------------------------------- the server *)

\* The handlers that read, create and delete, one request at a time.  The
\* other specifications below take the same handlers with ListArticles in
\* its two steps (SpecConcurrent) and with UpdateArticle (SpecUpdate).
Next ==
    \/ CreateArticle
    \/ GetArticle
    \/ ListArticles
    \/ DeleteArticle
    \/ ReturnResponse

Spec == Init /\ [][Next]_vars

\* The handlers run concurrently (one goroutine per request): a ListArticles
\* request takes two steps, and the writes of other requests may fall
\* between its rows statement and its count statement.
NextConcurrent ==
    \/ CreateArticle
    \/ DeleteArticle
    \/ ListArticlesRows
    \/ ListArticlesCount
    \/ ReturnResponse

SpecConcurrent == Init /\ [][NextConcurrent]_vars

\* The handlers that write the table, one request at a time.
NextUpdate ==
    \/ CreateArticle
    \/ UpdateArticle
    \/ DeleteArticle
    \/ ReturnResponse

SpecUpdate == Init /\ [][NextUpdate]_vars

\* UpdateArticle and DeleteArticle requests running concurrently on a table
\* that holds one article: each takes two steps, its load and its write.
InitWriters ==
    /\ articles = Create(<<>>, 1, "T", "C", 1).rows
    /\ nextId = 2
    /\ resp = NoResponse
    /\ listing = NotListing
    /\ retry = NotRetrying
    /\ calc = NoCalc
    /\ writers = {}
    /\ served = NothingServed

NextWriters ==
    \/ UpdateArticleRead
    \/ UpdateArticleWrite
    \/ DeleteArticleCheck
    \/ DeleteArticleWrite
    \/ ReturnResponse

SpecWriters == InitWriters /\ [][NextWriters]_vars

\* Requests one after the other, each answer kept for the record when the
\* caller receives it.
NextRecovery ==
    \/ CreateArticle
    \/ GetArticle
    \/ ReturnResponseRecorded

SpecRecovery == Init /\ [][NextRecovery]_vars

(* ------------------------------------------------- functions on their own *)

\* The codes of google.golang.org/grpc/codes.
GRPCCodes ==
    {"OK", "Canceled", "Unknown", "InvalidArgument", "DeadlineExceeded",
     "NotFound", "AlreadyExists", "PermissionDenied", "ResourceExhausted",
     "FailedPrecondition", "Aborted", "OutOfRange", "Unimplemented",
     "Internal", "Unavailable", "DataLoss", "Unauthenticated"}

\* ListArticlesRequest{PageSize, PageNumber, UserId}, with values on both
\* sides of every comparison the normalization makes.
PaginationRequests ==
    [PageSize : {-1, 0, 1, 3, 10, 100, 101},
     PageNumber : {-1, 0, 1, 2, 3, 21474837, 21474838, MaxInt32},
     UserId : {-1, 0, 1}]

\* What COUNT(*) can scan into the int32 total: small tables, multiples of
\* the page sizes and their neighbours, and the largest tables.
Totals ==
    {0, 1, 2, 3, 4, 9, 10, 11, 99, 100, 101, 200, 201,
     MaxInt32 - 100, MaxInt32 - 99, MaxInt32 - 9, MaxInt32 - 8, MaxInt32 - 1, MaxInt32}

\* A function and its input are drawn; nothing is stored and no request is
\* being handled.
InitFunctions ==
    /\ articles = <<>>
    /\ nextId = 1
    /\ resp = NoResponse
    /\ listing = NotListing
    /\ retry = NotRetrying
    /\ writers = {}
    /\ served = NothingServed
    /\ calc \in
         {[fn |-> "MapGRPCCodeToString", in |-> [a |-> a, b |-> b], out |-> Nil] :
              a \in GRPCCodes, b \in GRPCCodes}
         \cup
         {[fn |-> "ListArticles", in |-> [req |-> req, total |-> total], out |-> Nil] :
              req \in PaginationRequests, total \in Totals}

\* The mapper applied to two status codes.
ApplyMapGRPCCodeToString ==
    /\ calc.fn = "MapGRPCCodeToString"
    /\ UNCHANGED <<writers, served>>
    /\ calc.out = Nil
    /\ calc' = [calc EXCEPT !.out = [a |-> MapGRPCCodeToString(calc.in.a),
                                     b |-> MapGRPCCodeToString(calc.in.b)]]
    /\ UNCHANGED <<articles, nextId, resp, listing, retry>>

\* The pagination of ListArticles applied to a request and a total: what
\* it asks of the storage, and the answer it builds (of an empty page).
ApplyListArticles ==
    /\ calc.fn = "ListArticles"
    /\ UNCHANGED <<writers, served>>
    /\ calc.out = Nil
    /\ calc' = [calc EXCEPT !.out =
                   [query |-> ListArticlesParams(calc.in.req),
                    answer |-> ListArticlesAnswer(calc.in.req, <<>>, calc.in.total, <<>>).envelope.data]]
    /\ UNCHANGED <<articles, nextId, resp, listing, retry>>

NextFunctions ==
    \/ ApplyMapGRPCCodeToString
    \/ ApplyListArticles

SpecFunctions == InitFunctions /\ [][NextFunctions]_vars

(* ---------------------------------------------------------------- claims *)

\* What the user service answered at the i-th upstream call of the request.
Answer(i) == resp.calls[i].raw

\* The user service returned a user.
Found(raw) == raw.status = "OK" /\ raw.data = "user"

\* The lookup ended in not-found: a NotFound status, or a success envelope
\* that holds no user.
EndsNotFound(raw) ==
    raw.status = "NotFound" \/ (raw.status = "OK" /\ raw.data # "user")

\* The lookup ended in a transient failure.
EndsTransient(raw) == raw.status \in {"Unavailable", "DeadlineExceeded"}

\* The lookup ended in a permanent failure.
EndsPermanent(raw) ==
    raw.status \in {"Internal", "Unknown", "InvalidArgument", "NonStatus"}

\* The envelope is the success envelope carrying `article` with a null author.
DegradedSuccess(article) ==
    /\ resp.code = CodeSuccess
    /\ resp.data # Nil
    /\ resp.data.Article # Nil
    /\ resp.data.Article.Article = article
    /\ resp.data.Article.User = Nil

\* The request of a CreateArticle response passed authentication.
Authenticated(req) ==
    req.ctx.header = "bearer" /\ req.ctx.valid /\ req.blacklist = "clean"

\* C1: a GetArticle on a stored article whose one author lookup ends in
\* not-found, unavailable or deadline-exceeded returns code 000 with the
\* article and a null author.
C1_GetArticleDegradesOnTransient ==
    (/\ resp.op = "GetArticle"
     /\ resp.calls # <<>>
     /\ EndsNotFound(Answer(1)) \/ EndsTransient(Answer(1)))
    => /\ Len(resp.calls) = 1
       /\ GetByID(articles, resp.req.Id) # Nil
       /\ DegradedSuccess(GetByID(articles, resp.req.Id))

C1_Witness ==
    /\ resp.op = "GetArticle"
    /\ Len(resp.calls) = 1
    /\ Answer(1).status = "DeadlineExceeded"
    /\ resp.code = CodeSuccess
    /\ resp.data.Article.User = Nil

\* C2: a GetArticle on a stored article whose author lookup ends in a
\* permanent failure (internal, unknown, invalid-argument, a non-status
\* error) returns code 000 with the article and a null author.
C2_GetArticleDegradesOnPermanent ==
    (/\ resp.op = "GetArticle"
     /\ resp.calls # <<>>
     /\ EndsPermanent(Answer(1)))
    => DegradedSuccess(GetByID(articles, resp.req.Id))

\* C3: in a code-000 GetArticle response the article is the stored row, the
\* author is non-null exactly when the lookup for the row's author id
\* returned a user, and then id, name and email are the returned ones.
C3_GetArticleSuccessShape ==
    (resp.op = "GetArticle" /\ resp.code = CodeSuccess)
    => /\ resp.data # Nil
       /\ resp.data.Article # Nil
       /\ resp.data.Article.Article # Nil
       /\ resp.data.Article.Article = GetByID(articles, resp.req.Id)
       /\ Len(resp.calls) = 1
       /\ resp.calls[1].userID = resp.data.Article.Article.UserId
       /\ (resp.data.Article.User # Nil) <=> Found(Answer(1))
       /\ resp.data.Article.User # Nil
            => /\ resp.data.Article.User.Id = Answer(1).user.Id
               /\ resp.data.Article.User.Name = Answer(1).user.Name
               /\ resp.data.Article.User.Email = Answer(1).user.Email

C3_Witness ==
    /\ resp.op = "GetArticle"
    /\ resp.code = CodeSuccess
    /\ resp.data.Article.User # Nil
    /\ resp.data.Article.User.Name = "bob"

C5_CreateArticleRetries ==
    (/\ resp.op = "CreateArticle"
     /\ resp.calls # <<>>
     /\ \A i \in 1..Len(resp.calls) : EndsTransient(Answer(i)))
    => Len(resp.calls) = maxRetries

\* C6: a CreateArticle whose author lookup fails with unavailable or with
\* deadline-exceeded answers 015, which is neither 003 nor 002.
C6_CreateArticleTransientCode ==
    (/\ resp.op = "CreateArticle"
     /\ resp.calls # <<>>
     /\ EndsTransient(Answer(Len(resp.calls))))
    => /\ resp.code = CodeServiceUnavailable
       /\ resp.code \notin {CodeInvalidRequest, CodeUnknownError}

\* C7: a CreateArticle step changes the table only if the request passed
\* authentication, had a title and a content, and its author lookup returned
\* a user; a step answered with a code other than 000 changes nothing.
C7_CreateArticleWritesOnlyWhenVerified ==
    [][resp'.op = "CreateArticle"
       => /\ (articles' # articles \/ nextId' # nextId)
                => /\ Authenticated(resp'.req)
                   /\ resp'.req.Title # ""
                   /\ resp'.req.Content # ""
                   /\ resp'.calls # <<>>
                   /\ Found(resp'.calls[Len(resp'.calls)].raw)
                   /\ resp'.code = CodeSuccess
          /\ resp'.code # CodeSuccess
                => articles' = articles /\ nextId' = nextId]_vars

C7_Witness ==
    /\ resp.op = "CreateArticle"
    /\ resp.code = CodeSuccess
    /\ GetByID(articles, resp.data.Article.Id) = resp.data.Article

C9_AuthorFromCredentialOnly ==
    (resp.op = "CreateArticle" /\ resp.calls # <<>>)
    => /\ \A i \in 1..Len(resp.calls) : resp.calls[i].userID = ToInt32(resp.req.ctx.UserID)
       /\ \A other \in CreateArticleRequests :
            (other.Title = resp.req.Title /\ other.Content = resp.req.Content)
            => /\ CreateArticleLookupID(resp.req.ctx.UserID, other) = resp.calls[1].userID
               /\ resp.code = CodeSuccess
                    => CreateArticleAuthorID(resp.req.ctx.UserID, other) = resp.data.Article.UserId
       /\ resp.code = CodeSuccess
            => /\ resp.data.Article.UserId = ToInt32(resp.req.ctx.UserID)
               /\ GetByID(articles, resp.data.Article.Id).UserId = ToInt32(resp.req.ctx.UserID)

C9_Witness ==
    /\ resp.op = "CreateArticle"
    /\ resp.code = CodeSuccess
    /\ resp.req.UserId = 2
    /\ resp.req.ctx.UserID = U64(0, 0, 1)
    /\ resp.data.Article.UserId = 1

\* C10: a ListArticles whose storage query succeeded answers 000 with one
\* entry per row of the result, in the order of the result; the entry of a
\* row has the user its own lookup returned, or a null author when that
\* lookup returned none, whatever the other lookups returned.
C10_ListArticlesPerRow ==
    resp.op = "ListArticles"
    => /\ resp.code # CodeSuccess => resp.calls = <<>>
       /\ resp.code = CodeSuccess
            => LET rows == ListArticlesQuery(articles, resp.req).articles
                   out == resp.data.Articles
               IN  /\ Len(out) = Len(rows)
                   /\ Len(resp.calls) = Len(rows)
                   /\ \A i \in 1..Len(rows) :
                        /\ out[i].Article = rows[i]
                        /\ resp.calls[i].userID = rows[i].UserId
                        /\ Found(Answer(i)) => /\ out[i].User # Nil
                                               /\ out[i].User.Id = Answer(i).user.Id
                                               /\ out[i].User.Name = Answer(i).user.Name
                                               /\ out[i].User.Email = Answer(i).user.Email
                        /\ ~Found(Answer(i)) => out[i].User = Nil

C10_Witness ==
    /\ resp.op = "ListArticles"
    /\ resp.code = CodeSuccess
    /\ Len(resp.data.Articles) = 2
    /\ resp.data.Articles[1].User = Nil
    /\ resp.data.Articles[2].User # Nil
    /\ Answer(1).status = "Internal"

(* ------------------------------------------------------------ C11..C20 *)

Min(a, b) == IF a < b THEN a ELSE b
Max(a, b) == IF a > b THEN a ELSE b

\* C11: a ListArticles answer to page >= 1 and 1 <= pageSize <= 100 holds
\* exactly min(pageSize, max(0, total - (page - 1) * pageSize)) items, total
\* being the total of the same answer, also when CreateArticle and
\* DeleteArticle requests run concurrently with it.
C11_ListArticlesItemCount ==
    (/\ resp.op = "ListArticles"
     /\ resp.code = CodeSuccess
     /\ resp.req.PageNumber >= 1
     /\ resp.req.PageSize \in 1..100)
        => Len(resp.data.Articles) =
               Min(resp.req.PageSize,
                   Max(0, resp.data.Total - (resp.req.PageNumber - 1) * resp.req.PageSize))

\* The normalized page size, as the specification words it.
PageSizeOf(req) ==
    IF req.PageSize <= 0 THEN 10 ELSE IF req.PageSize > 100 THEN 100 ELSE req.PageSize

\* The least number of pages of `size` items that hold `total` items.
CeilDiv(total, size) == (total \div size) + (IF total % size = 0 THEN 0 ELSE 1)

\* C12: the totalPages of a ListArticles answer is ceil(total / pageSize)
\* for the normalized page size and every total >= 0, and 0 when total is 0.
C12_TotalPagesIsCeiling ==
    (calc.fn = "ListArticles" /\ calc.out # Nil)
        => /\ calc.out.answer.Total = calc.in.total
           /\ calc.out.answer.TotalPages = CeilDiv(calc.in.total, PageSizeOf(calc.in.req))
           /\ (calc.in.total = 0 => calc.out.answer.TotalPages = 0)

\* C13: ListArticles turns a page size <= 0 into 10 and one > 100 into 100,
\* a page number < 1 into 1, asks the storage for limit = pageSize and
\* offset = (page - 1) * pageSize (written as offset >= 0, offset \div pageSize
\* = page - 1 and offset % pageSize = 0), uses the query filtered by author exactly
\* when the request's author id is > 0, and reports the normalized page.
C13_ListArticlesNormalization ==
    (calc.fn = "ListArticles" /\ calc.out # Nil)
        => LET req == calc.in.req
               query == calc.out.query
               size == PageSizeOf(req)
               page == IF req.PageNumber < 1 THEN 1 ELSE req.PageNumber
           IN  /\ query.pageSize = size
               /\ query.pageNumber = page
               /\ query.limit = size
               /\ query.offset >= 0
               /\ query.offset \div size = page - 1
               /\ query.offset % size = 0
               /\ query.filtered = (req.UserId > 0)
               /\ query.filtered => query.userID = req.UserId
               /\ calc.out.answer.Page = page

\* The answers of the user service that are transient failures: it is
\* unreachable, it timed out, or it is overloaded.
TransientStatuses == {"Unavailable", "DeadlineExceeded", "ResourceExhausted"}

\* All the attempts made so far failed.
AllAttemptsFailed == \A i \in 1..Len(retry.attempts) : retry.attempts[i].err # Nil

\* C14: GetUserWithRetry makes at most the configured number of attempts
\* (3 in the program); an attempt is followed by another one only if it
\* ended in a transient failure; after Found, NotFound or a permanent
\* failure the call returns at once, with no further attempt and no sleep.
C14_RetryOnlyAfterTransient ==
    /\ Len(retry.attempts) <= retry.maxRetries
    /\ (retry.maxRetries = maxRetries => Len(retry.attempts) <= 3)
    /\ \A i \in 1..Len(retry.attempts) :
           /\ i < Len(retry.attempts) => retry.attempts[i].raw.status \in TransientStatuses
           /\ retry.attempts[i].raw.status \notin TransientStatuses
                  => /\ i = Len(retry.attempts)
                     /\ Len(retry.sleeps) = i - 1
                     /\ retry.pc = "done"

C14_Witness ==
    /\ retry.pc = "done"
    /\ retry.maxRetries = maxRetries
    /\ ~retry.cancelled
    /\ Len(retry.attempts) = 3
    /\ retry.attempts[1].raw.status = "Unavailable"
    /\ retry.attempts[2].raw.status = "DeadlineExceeded"
    /\ retry.attempts[3].raw.status = "NotFound"

\* C15: when every attempt of GetUserWithRetry failed, the error returned is
\* the error of the last attempt, kind included, with no user; the call never
\* returns neither a user nor an error.
C15_RetryReturnsLastError ==
    retry.pc = "done"
        => /\ ~(retry.result.user = Nil /\ retry.result.err = Nil)
           /\ AllAttemptsFailed
                  => /\ retry.result.user = Nil
                     /\ retry.result.err = retry.attempts[Len(retry.attempts)].err
                     /\ retry.result.err.code =
                            GetUser(retry.attempts[Len(retry.attempts)].raw).err.code

C15_Witness ==
    /\ retry.pc = "done"
    /\ retry.maxRetries = maxRetries
    /\ Len(retry.attempts) = 3
    /\ retry.attempts[1].raw.status = "Unavailable"
    /\ retry.attempts[2].raw.status = "Unavailable"
    /\ retry.attempts[3].raw.status = "DeadlineExceeded"
    /\ retry.result.err.code = "DeadlineExceeded"

\* C16: GetUserWithRetry sleeps only between attempts (k failed attempts, k - 1
\* sleeps, none after the last); the first sleep is 100ms, every later one
\* is twice the one before it, capped at 1s, for every configured number of
\* attempts.
C16_RetrySleepSchedule ==
    /\ retry.pc = "sleep" => (Len(retry.attempts) >= 1 /\ Len(retry.attempts) < retry.maxRetries)
    /\ retry.pc = "attempt" => Len(retry.sleeps) = Len(retry.attempts)
    /\ retry.pc \in {"sleep", "done"} => Len(retry.sleeps) = Len(retry.attempts) - 1
    /\ Len(retry.sleeps) >= 1 => retry.sleeps[1] = 100
    /\ \A i \in 1..Len(retry.sleeps) :
           /\ retry.sleeps[i] <= 1000
           /\ i > 1 => retry.sleeps[i] = Min(2 * retry.sleeps[i - 1], 1000)

C16_Witness ==
    /\ retry.pc = "done"
    /\ AllAttemptsFailed
    /\ Len(retry.attempts) = 6
    /\ retry.sleeps = <<100, 200, 400, 800, 1000>>

\* C17: when the caller cancels while GetUserWithRetry is in a backoff sleep,
\* the call sleeps no further, makes no further attempt and returns the
\* cancellation.
C17_CancelAbortsRetry ==
    (retry.cancelAt # Nil /\ retry.cancelAt.pc = "sleep")
        => /\ retry.pc # "attempt"
           /\ Len(retry.sleeps) = retry.cancelAt.sleeps
           /\ Len(retry.attempts) = retry.cancelAt.attempts
           /\ retry.pc = "done" => (retry.result.err # Nil /\ retry.result.err.code = "Canceled")

\* C18: an attempt the user service answers with ResourceExhausted is
\* classified as a transient failure, and GetUserWithRetry retries after it.
C18_ResourceExhaustedRetried ==
    \A i \in 1..Len(retry.attempts) :
        (/\ retry.attempts[i].raw.status = "ResourceExhausted"
         /\ i < retry.maxRetries
         /\ ~retry.cancelled)
            => /\ retry.attempts[i].err.code \in TransientStatuses
               /\ retry.pc = "done" => Len(retry.attempts) > i

\* The wire codes of the closed set.
ClosedCodes ==
    {CodeSuccess, CodeUnknownError, CodeInvalidRequest, CodeNotFound, CodeAlreadyExists,
     CodePermissionDenied, CodeInternalError, CodeUnauthenticated, CodeServiceUnavailable, "016"}

\* C19: the mapper gives every failure condition one code of the closed set,
\* the same condition always the same code, and two distinct failure
\* conditions (deadline exceeded, resource exhausted, cancelled and unknown
\* among them) never the same code.
C19_MapperInjective ==
    (calc.fn = "MapGRPCCodeToString" /\ calc.out # Nil)
        => /\ calc.out.a \in ClosedCodes
           /\ calc.in.a = calc.in.b => calc.out.a = calc.out.b
           /\ (calc.in.a # calc.in.b /\ calc.in.a # "OK" /\ calc.in.b # "OK")
                  => calc.out.a # calc.out.b

\* C20: a successful UpdateArticle leaves a field whose request value is
\* empty as it was stored and sets the other one to the request's value; no
\* stored field becomes empty; and on a row the same update was already
\* applied to, it changes neither title nor content.
C20_PartialUpdate ==
    (resp.op = "UpdateArticle" /\ resp.code = CodeSuccess)
        => LET req == resp.req
               now == GetByID(articles, req.Id)
           IN  /\ req.was # Nil
               /\ now # Nil
               /\ now.Title = (IF req.Title = "" THEN req.was.Title ELSE req.Title)
               /\ now.Content = (IF req.Content = "" THEN req.was.Content ELSE req.Content)
               /\ now.Title # ""
               /\ now.Content # ""
               /\ resp.data.Article = now
               /\ UpdateArticleFields(now, req) = [title |-> now.Title, content |-> now.Content]
               /\ ((req.Title = "" \/ req.was.Title = req.Title)
                   /\ (req.Content = "" \/ req.was.Content = req.Content))
                      => now = req.was

\* An update of the content alone, applied to a row it was applied to before.
C20_Witness ==
    /\ resp.op = "UpdateArticle"
    /\ resp.code = CodeSuccess
    /\ resp.req.Title = ""
    /\ resp.req.Content = "X"
    /\ resp.req.was.Title = "T"
    /\ resp.req.was.Content = "X"
    /\ GetByID(articles, resp.req.Id).Title = "T"
    /\ GetByID(articles, resp.req.Id).Content = "X"

(* ------------------------------------------------------------ C21..C30 *)

\* The ids a DeleteArticle has removed: ids are issued once, in order, and
\* only DeleteArticle removes a row.
DeletedIds == {id \in 1..(nextId - 1) : GetByID(articles, id) = Nil}

\* The GetArticle being answered could not query the storage.
GetArticleStorageFailed ==
    /\ resp.code = CodeInternalError
    /\ resp.message =
           GRPCError("Internal", "Failed to get article. Contact support if the issue persists.").message

\* A GetArticle on a removed id, the storage answering, is not-found and
\* asks the user service nothing, whatever the user service would answer.
DeletedStayNotFound ==
    \A id \in DeletedIds :
        /\ \A kind \in UpstreamKinds :
               LET got == GetArticleWithUser(articles, id, TRUE, kind) IN
               /\ got.err # Nil
               /\ MapGRPCCodeToString(got.err.code) = CodeNotFound
               /\ got.calls = <<>>
        /\ (resp.op = "GetArticle" /\ resp.req.Id = id)
               => /\ resp.calls = <<>>
                  /\ resp.code = CodeNotFound \/ GetArticleStorageFailed

C22_DeleteReturnsDeletedRow ==
    (resp.op = "DeleteArticle" /\ resp.code = CodeSuccess)
        => /\ resp.req.was # Nil
           /\ GetByID(articles, resp.req.Id) = Nil
           /\ resp.data # Nil
           /\ "Article" \in DOMAIN resp.data
           /\ resp.data.Article = resp.req.was

\* C24: a GetArticle that succeeds without the author because the user
\* service is unavailable says so in its message, which is not the plain
\* "success" of a fully enriched answer.
C24_DegradedMessage ==
    (/\ resp.op = "GetArticle"
     /\ resp.code = CodeSuccess
     /\ resp.calls # <<>>
     /\ Answer(1).status = "Unavailable")
        => /\ resp.data.Article.User = Nil
           /\ resp.message # "success"
           /\ resp.message = "success (author information unavailable)"

\* C23: every GetArticle on a stored article makes its own lookup and its
\* answer follows from that lookup alone: the author attached when the user
\* service finds the user, code 000 with a null author when it is
\* unavailable, whatever the answer served before it was, the answer
\* to the same article while the user service was down included.
C23_EnrichmentStateless ==
    (resp.op = "GetArticle" /\ resp.req.Id > 0 /\ GetByID(articles, resp.req.Id) # Nil)
        => LET article == GetByID(articles, resp.req.Id) IN
           /\ resp.code = CodeSuccess => Len(resp.calls) = 1
           /\ resp.calls # <<>>
                  => /\ resp.calls[1].userID = article.UserId
                     /\ Found(Answer(1))
                            => /\ resp.code = CodeSuccess
                               /\ resp.data.Article.Article = article
                               /\ resp.data.Article.User = convertUser(Answer(1).user)
                               /\ resp.data.Article.User # Nil
                     /\ Answer(1).status = "Unavailable" => DegradedSuccess(article)

\* The article served without its author while the user service was down
\* is served next with its author.
C23_Witness ==
    /\ served.op = "GetArticle"
    /\ served.id = 1
    /\ served.code = CodeSuccess
    /\ served.author = Nil
    /\ served.lookup = "Unavailable"
    /\ resp.op = "GetArticle"
    /\ resp.req.Id = 1
    /\ resp.code = CodeSuccess
    /\ resp.data.Article.User # Nil
    /\ resp.data.Article.User.Id = 1

\* C25: a successful UpdateArticle that supplies only the title does not
\* change the stored content, and one that supplies only the content does not
\* change the stored title, also when other UpdateArticle requests on the
\* article run between its load and its write.
C25_PartialUpdateKeepsOtherField ==
    (resp.op = "UpdateArticle" /\ resp.code = CodeSuccess)
        => LET now == GetByID(articles, resp.req.Id)
               before == resp.req.atWrite
           IN  /\ before # Nil
               /\ now # Nil
               /\ resp.req.Title = "" => now.Title = before.Title
               /\ resp.req.Content = "" => now.Content = before.Content

\* C26: an UpdateArticle or DeleteArticle whose row is absent at the moment
\* of its write, the storage working, answers not-found (005), never
\* internal (013), also when a concurrent DeleteArticle removed the row after
\* the request's existence check.
C26_AbsentAtWriteIsNotFound ==
    (/\ resp.op \in {"UpdateArticle", "DeleteArticle"}
     /\ resp.req.storage = "ok"
     /\ resp.req.atWrite = Nil)
        => resp.code = CodeNotFound

C28_OffsetNeverWraps ==
    (calc.fn = "ListArticles" /\ calc.out # Nil /\ calc.in.req.PageNumber >= 1)
        => LET offset == calc.out.query.offset
               size == PageSizeOf(calc.in.req)
           IN  /\ size \in 1..maxPageSize
               /\ offset >= 0
               /\ offset % size = 0
               /\ offset \div size = calc.in.req.PageNumber - 1

\* The int32 i and the uint64 u are the same number.
SameNumber(i, u) == u.hi32 = 0 /\ u.b31 = 0 /\ i = u.lo31

\* C29: the id a CreateArticle asks the user service for, and the author id
\* of the row it stores, are numerically the user id of the credential, and
\* are never negative.
C29_AuthorIdIsCredentialId ==
    (resp.op = "CreateArticle" /\ resp.calls # <<>>)
        => /\ resp.calls[1].userID >= 0
           /\ SameNumber(resp.calls[1].userID, resp.req.ctx.UserID)
           /\ resp.code = CodeSuccess
                => /\ SameNumber(resp.data.Article.UserId, resp.req.ctx.UserID)
                   /\ SameNumber(GetByID(articles, resp.data.Article.Id).UserId,
                                 resp.req.ctx.UserID)

\* C30: for every answer of the user service a handler received, GetUser
\* returns a user exactly when it returns no error, and a success envelope
\* without data or without a user is the NotFound error; so a GetArticle
\* answers with an author exactly when the user service returned one, and a
\* CreateArticle succeeds only when it did.
C30_UserIffNoError ==
    \A i \in 1..Len(resp.calls) :
        LET raw == resp.calls[i].raw
            got == GetUser(raw)
        IN  /\ got.user # Nil <=> got.err = Nil
            /\ (raw.status = "OK" /\ (raw.data # "user" \/ raw.user = Nil))
                    => got.err # Nil /\ got.err.code = "NotFound"
            /\ got.err = Nil => got.user = raw.user /\ Found(raw)
            /\ (resp.op = "GetArticle" /\ resp.code = CodeSuccess)
                    => (resp.data.Article.User # Nil <=> Found(raw))
            /\ (resp.op = "CreateArticle" /\ resp.code = CodeSuccess) => Found(raw)

C30_Witness ==
    /\ resp.op = "GetArticle"
    /\ Len(resp.calls) = 1
    /\ Answer(1).status = "OK"
    /\ Answer(1).data = "nouser"
    /\ GetUser(Answer(1)).user = Nil
    /\ GetUser(Answer(1)).err.code = "NotFound"
    /\ resp.code = CodeSuccess
    /\ resp.data.Article.User = Nil

====
